---- MODULE Spec2Model ----
(***************************************************************************)
(* A model of three pieces of the GPII app:                                *)
(*   - gpii.psp.baseRestartWarning / gpii.psp.restartWarning, the restart  *)
(*     warning of a settings group (src/unnamed/part_000);                 *)
(*   - gpii.app.blurrable, the blur arbitration of a window                *)
(*     (src/src/main/blurrable.js);                                        *)
(*   - gpii.qssWidget.menu, the menu widget of the quick set strip         *)
(*     (src/src/renderer/qssWidget/js/qssMenuWidget.js).                   *)
(*                                                                         *)
(* JavaScript strings are modelled as sequences of tokens, so that join    *)
(* and template substitution are concatenations; the empty string is <<>>. *)
(* null and undefined are two reserved one-token sequences, so that ===    *)
(* is plain equality and tells them apart.                                 *)
(***************************************************************************)
EXTENDS Integers, Sequences, FiniteSets, TLC

VARIABLES
    panelPendingChanges,  \* {settingsPanel}.model.pendingChanges
    settings,             \* {that}.model.settings, the group's settings tree
    messages,             \* {that}.model.messages
    pendingChanges,       \* {that}.model.pendingChanges (relay target)
    solutionNames,        \* {that}.model.solutionNames (relay target)
    restartText,          \* {that}.model.restartText (relay target)
    restartBtnLabel,      \* {that}.model.restartBtnLabel (relay target)
    visible,              \* whether {that}.container is shown
    lastFired,            \* the event fired by the last step, with its argument
    focusedWindow,        \* BrowserWindow.getFocusedWindow(), NoWindow for null
    windowGradeNames,     \* the gradeNames property of every window
    linkedWindowsGrades,  \* {that}.options.linkedWindowsGrades
    blurListenerAttached, \* whether onFocusLost.fire listens to the target's blur
    blurrableFired,       \* the events of the blurrable fired by the last step
    windowState,          \* the logical state of the target window
    menuValue,            \* {repeater}.model.value = {menu}.model.setting.value
    menuDisabled,         \* {repeater}.model.disabled = {menu}.model.disabled
    menuDisabledClass,    \* whether the repeater's container has styles.disabled
    closeTimers,          \* the delays of the setTimeout callbacks not yet run
    menuFired,            \* the events fired to the channelNotifier so far
    updateValueCalls,     \* how many times updateValue was called
    lastCallValue         \* the value given to the last updateValue call

advisoryVars == <<panelPendingChanges, settings, messages, pendingChanges,
                  solutionNames, restartText, restartBtnLabel, visible, lastFired>>

blurVars == <<focusedWindow, windowGradeNames, linkedWindowsGrades,
              blurListenerAttached, blurrableFired, windowState>>

menuVars == <<menuValue, menuDisabled, menuDisabledClass, closeTimers, menuFired,
              updateValueCalls, lastCallValue>>

vars == <<advisoryVars, blurVars, menuVars>>

----------------------------------------------------------------------------
(* JavaScript values *)

Undefined == <<"#undefined">>
Null == <<"#null">>
EmptyString == <<>>

\* fluid.isValue: neither null nor undefined
isValue(v) == v \notin {Undefined, Null}

\* JavaScript truthiness of a string, null or undefined
Truthy(v) == v \notin {Undefined, Null, EmptyString}

\* array[0]: undefined when the array is empty
First(array) == IF Len(array) > 0 THEN array[1] ELSE Undefined

\* Array.prototype.indexOf(value) >= 0
Contains(array, value) == \E i \in 1..Len(array) : array[i] = value

\* fluid.find_if(source, func, deflt): the first element func accepts, else
\* deflt. Callers here only test the result for truthiness, and an element is
\* an object, hence truthy, while both defaults in use (undefined, false) are
\* falsy: the operator is given, for every element of source, whether func
\* accepts it, and returns the index of the element found, 0 for deflt.
find_if(accepted) ==
    IF \E i \in 1..Len(accepted) : accepted[i]
    THEN CHOOSE i \in 1..Len(accepted) :
            accepted[i] /\ \A j \in 1..(i - 1) : ~accepted[j]
    ELSE 0

\* Array.prototype.join(separator): null and undefined elements join as ""
RECURSIVE join(_, _)
join(array, separator) ==
    IF Len(array) = 0 THEN EmptyString
    ELSE LET head == IF isValue(array[1]) THEN array[1] ELSE EmptyString
         IN IF Len(array) = 1 THEN head
            ELSE head \o separator \o join(Tail(array), separator)

\* fluid.stringTemplate(template, {solutions: value}): every "%solutions"
\* placeholder of the template is replaced by the value
RECURSIVE stringTemplate(_, _)
stringTemplate(template, solutions) ==
    IF Len(template) = 0 THEN EmptyString
    ELSE (IF Head(template) = "%solutions" THEN solutions ELSE <<Head(template)>>)
            \o stringTemplate(Tail(template), solutions)

----------------------------------------------------------------------------
(* gpii.psp.baseRestartWarning *)

\* solutionNameOf without the fallback to the title
solutionNameOfNoFallback(pendingChange) == pendingChange.solutionName

\* the display name of a pending change: its solution name, else its title
solutionNameOf(pendingChange) ==
    IF isValue(pendingChange.solutionName)
    THEN pendingChange.solutionName
    ELSE pendingChange.schema.title

\* accumulateSolutionName without the indexOf test
accumulateSolutionNameNoDedup(pendingChange, names) ==
    LET solutionName == solutionNameOf(pendingChange)
    IN IF isValue(solutionName) THEN Append(names, solutionName) ELSE names

\* the accumulator function passed to fluid.accumulate
accumulateSolutionName(pendingChange, names) ==
    LET solutionName == solutionNameOf(pendingChange)
    IN IF isValue(solutionName) /\ ~Contains(names, solutionName)
       THEN Append(names, solutionName)
       ELSE names

\* fluid.accumulate(list, fn, arg)
RECURSIVE accumulate(_, _)
accumulate(list, arg) ==
    IF Len(list) = 0 THEN arg
    ELSE accumulate(Tail(list), accumulateSolutionName(Head(list), arg))

isOSRestartNeeded(changes) ==
    find_if([i \in 1..Len(changes) |-> changes[i].liveness = "OSRestart"]) # 0

\* getSolutionsNames that puts the OS name in front of the other names
getSolutionsNamesKeepsOthers(msgs, changes) ==
    IF isOSRestartNeeded(changes)
    THEN <<msgs.osName>> \o accumulate(changes, <<>>)
    ELSE accumulate(changes, <<>>)

getSolutionsNames(msgs, changes) ==
    IF isOSRestartNeeded(changes)
    THEN <<msgs.osName>>
    ELSE accumulate(changes, <<>>)

\* generateRestartText that returns the template without substituting
generateRestartTextRaw(msgs, names) ==
    IF First(names) = msgs.osName
    THEN msgs.osRestartText
    ELSE IF Truthy(msgs.restartText) THEN msgs.restartText ELSE Undefined

generateRestartText(msgs, names) ==
    IF First(names) = msgs.osName
    THEN msgs.osRestartText
    ELSE IF Truthy(msgs.restartText)
         THEN stringTemplate(msgs.restartText, join(names, <<", ">>))
         ELSE Undefined

generateRestartBtnLabel(msgs, names) ==
    IF First(names) = msgs.osName THEN msgs.restartNow ELSE msgs.applyNow

----------------------------------------------------------------------------
(* gpii.psp.restartWarning *)

\* hasUpdatedSetting as a loop that returns the result of the first setting
\* with subsettings instead of going on to its later siblings
RECURSIVE hasUpdatedSettingStops(_, _)
hasUpdatedSettingStops(pendingChange, settingsArray) ==
    IF Len(settingsArray) = 0 THEN FALSE
    ELSE IF settingsArray[1].path = pendingChange.path THEN TRUE
    ELSE IF settingsArray[1].hasSettings
         THEN hasUpdatedSettingStops(pendingChange, settingsArray[1].settings)
         ELSE hasUpdatedSettingStops(pendingChange, Tail(settingsArray))

RECURSIVE hasUpdatedSetting(_, _)
hasUpdatedSetting(pendingChange, settingsArray) ==
    find_if([i \in 1..Len(settingsArray) |->
                LET setting == settingsArray[i]
                IN IF setting.path = pendingChange.path THEN TRUE
                   ELSE IF setting.hasSettings
                        THEN hasUpdatedSetting(pendingChange, setting.settings)
                        ELSE FALSE]) # 0

getPendingChanges(allPendingChanges, settingsArray) ==
    SelectSeq(allPendingChanges,
              LAMBDA pendingChange : hasUpdatedSetting(pendingChange, settingsArray))

\* toggle with the comparison off by one
toggleOffByOne(names) == Len(names) > 1

\* container.toggle(solutionNames.length > 0)
toggle(names) == Len(names) > 0

----------------------------------------------------------------------------
(* The inputs the model draws from *)

MaxPending == 3

Str(s) == <<s>>

Change(path, liveness, solutionName, title) ==
    [path |-> path, liveness |-> liveness, solutionName |-> solutionName,
     schema |-> [title |-> title]]

\* Pending changes as the settings panel records them: the setting's path,
\* liveness, optional solutionName and schema (whose title may be missing).
ChangePool ==
    { Change("a", "ApplicationRestart", Str("Magnifier"), Str("Magnification")),
      Change("b", "ApplicationRestart", Undefined, Str("Zoom Tool")),
      Change("c", "OSRestart", Str("Magnifier"), Str("Language")),
      Change("b", "SomethingElse", Str("Windows"), Undefined),
      Change("c", "NoRestart", Null, EmptyString),
      Change("a", "ApplicationRestart", Null, Undefined) }

Leaf(path) == [path |-> path, hasSettings |-> FALSE, settings |-> <<>>]
Node(path, subsettings) == [path |-> path, hasSettings |-> TRUE, settings |-> subsettings]

\* Settings trees of a group; "x" and "y" are paths no pending change has.
SettingsPool ==
    { <<>>,
      <<Leaf("a"), Leaf("b")>>,
      <<Node("x", <<Leaf("y")>>), Leaf("b"), Node("y", <<>>)>>,
      <<Node("a", <<Node("x", <<Leaf("c")>>)>>)>>,
      <<Node("b", <<Leaf("x"), Leaf("c")>>), Leaf("a")>> }

\* the component's default messages: every entry null
DefaultMessages ==
    [osName |-> Null, osRestartText |-> Null, restartText |-> Null,
     undo |-> Null, applyNow |-> Null, restartNow |-> Null]

MessagesPool ==
    { DefaultMessages,
      [osName |-> Str("Windows"),
       osRestartText |-> Str("Windows needs to restart to apply your changes."),
       restartText |-> <<"To apply your changes, ", "%solutions", " must restart.">>,
       undo |-> Str("Undo"), applyNow |-> Str("Apply now"),
       restartNow |-> Str("Restart now")] }

NoEvent == [event |-> "none", args |-> <<>>]

----------------------------------------------------------------------------
(* The component's model: relays, listeners and invokers *)

\* modelRelay.pendingChanges of gpii.psp.restartWarning
relayPendingChanges(panelChanges, settingsArray) ==
    getPendingChanges(panelChanges, settingsArray)

\* modelRelay.solutionNames
relaySolutionNames(msgs, changes) == getSolutionsNames(msgs, changes)

\* modelRelay.restartText
relayRestartText(msgs, names) == generateRestartText(msgs, names)

\* modelRelay.restartBtnLabel
relayRestartBtnLabel(msgs, names) == generateRestartBtnLabel(msgs, names)

\* modelListeners.solutionNames: runs toggle when solutionNames has changed
solutionNamesListener(oldNames, newNames, shown) ==
    IF newNames # oldNames THEN toggle(newNames) ELSE shown

\* One model transaction: the relays recompute every derived field from the
\* changed sources and the listeners see the new values.
Transaction(newPanel, newSettings, newMessages) ==
    LET changes == relayPendingChanges(newPanel, newSettings)
        names == relaySolutionNames(newMessages, changes)
    IN /\ panelPendingChanges' = newPanel
       /\ settings' = newSettings
       /\ messages' = newMessages
       /\ pendingChanges' = changes
       /\ solutionNames' = names
       /\ restartText' = relayRestartText(newMessages, names)
       /\ restartBtnLabel' = relayRestartBtnLabel(newMessages, names)
       /\ visible' = solutionNamesListener(solutionNames, names, visible)
       /\ lastFired' = NoEvent
       /\ UNCHANGED <<blurVars, menuVars>>

\* The component after construction: the panel has no pending change, the
\* group's settings and the messages are those it was created with, the
\* relays have run and the listener has seen the initial solutionNames.
AdvisoryInit ==
    /\ panelPendingChanges = <<>>
    /\ settings \in SettingsPool
    /\ messages \in MessagesPool
    /\ pendingChanges = relayPendingChanges(panelPendingChanges, settings)
    /\ solutionNames = relaySolutionNames(messages, pendingChanges)
    /\ restartText = relayRestartText(messages, solutionNames)
    /\ restartBtnLabel = relayRestartBtnLabel(messages, solutionNames)
    /\ visible = toggle(solutionNames)
    /\ lastFired = NoEvent

\* the settings panel records one more pending change
AddPendingChange ==
    \E change \in ChangePool :
        /\ Len(panelPendingChanges) < MaxPending
        /\ Transaction(Append(panelPendingChanges, change), settings, messages)

\* a pending change is applied or undone: the panel drops it
RemovePendingChange ==
    \E i \in 1..Len(panelPendingChanges) :
        Transaction(SubSeq(panelPendingChanges, 1, i - 1)
                        \o SubSeq(panelPendingChanges, i + 1, Len(panelPendingChanges)),
                    settings, messages)

\* the group is given another settings tree
UpdateSettings ==
    \E tree \in SettingsPool :
        /\ tree # settings
        /\ Transaction(panelPendingChanges, tree, messages)

\* the messages change (another locale)
UpdateMessages ==
    \E msgs \in MessagesPool :
        /\ msgs # messages
        /\ Transaction(panelPendingChanges, settings, msgs)

\* cancelBtn.onClick passing the panel's list instead of the component's
cancelBtnArgsUnscoped == panelPendingChanges

\* the argument of cancelBtn.onClick
cancelBtnArgs == pendingChanges

\* the argument of restartNowBtn.onClick
restartNowBtnArgs == pendingChanges

ClickUndo ==
    /\ lastFired' = [event |-> "onUndoChanges", args |-> cancelBtnArgs]
    /\ UNCHANGED <<panelPendingChanges, settings, messages, pendingChanges,
                   solutionNames, restartText, restartBtnLabel, visible>>
    /\ UNCHANGED <<blurVars, menuVars>>

ClickRestartNow ==
    /\ lastFired' = [event |-> "onRestartNow", args |-> restartNowBtnArgs]
    /\ UNCHANGED <<panelPendingChanges, settings, messages, pendingChanges,
                   solutionNames, restartText, restartBtnLabel, visible>>
    /\ UNCHANGED <<blurVars, menuVars>>

----------------------------------------------------------------------------
(* gpii.app.blurrable *)

NoWindow == "none"
TargetWindow == "target"
OtherWindows == {"other1", "other2"}

\* {that}.options.gradeNames of the component that owns the target window
ComponentGradeNames == <<"fluid.component", "gpii.app.blurrable", "gpii.app.qssWidget">>

\* the gradeNames a window other than the target may carry: none when it is
\* no blurrable window
OtherGradeNamesPool ==
    { Undefined,
      <<"fluid.component", "gpii.app.qss">>,
      <<"fluid.component", "gpii.app.psp">>,
      <<"fluid.component", "gpii.app.qssNotification", "gpii.app.qss">> }

LinkedWindowsGradesPool ==
    { <<>>,
      <<"gpii.app.qss">>,
      <<"gpii.app.qss", "gpii.app.qssWidget">>,
      <<"gpii.app.psp", "gpii.app.qss">> }

\* allowBlur with every in the place of some
allowBlurEvery(focused) ==
    ~(\A i \in 1..Len(linkedWindowsGrades) :
        IF focused # NoWindow /\ windowGradeNames[focused] # Undefined
        THEN Contains(windowGradeNames[focused], linkedWindowsGrades[i])
        ELSE FALSE)

\* allowBlur in onFocusLost, the focused window being the one given
allowBlur(focused) ==
    ~(\E i \in 1..Len(linkedWindowsGrades) :
        IF focused # NoWindow /\ windowGradeNames[focused] # Undefined
        THEN Contains(windowGradeNames[focused], linkedWindowsGrades[i])
        ELSE FALSE)

\* onFocusLost firing onBlur whatever allowBlur is
onFocusLostAlwaysFires(focused) == <<"onFocusLost", "onBlur">>

\* the events fired when the target's blur fires onFocusLost: the listener
\* gpii.app.blurrable.onFocusLost fires onBlur if the blur is allowed
onFocusLost(focused) ==
    IF allowBlur(focused) THEN <<"onFocusLost", "onBlur">> ELSE <<"onFocusLost">>

\* the logical state of the target window after the events of a step: a
\* fired onBlur moves it to Blurred
stateAfter(events, state) ==
    IF Contains(events, "onBlur") THEN "Blurred" ELSE state

\* the logical state of the target window when it is created or refocused
stateOnFocus == "Focused"

BlurInit ==
    /\ focusedWindow \in {NoWindow, TargetWindow} \cup OtherWindows
    /\ windowGradeNames \in
          { [w \in {TargetWindow} \cup OtherWindows |->
                IF w = TargetWindow THEN Undefined ELSE other[w]] :
            other \in [OtherWindows -> OtherGradeNamesPool] }
    /\ linkedWindowsGrades \in LinkedWindowsGradesPool
    /\ blurListenerAttached = FALSE
    /\ blurrableFired = <<>>
    /\ windowState = stateOnFocus

\* initBlurrable(targetWindow)
initBlurrable ==
    /\ ~blurListenerAttached
    /\ blurListenerAttached' = TRUE
    /\ windowGradeNames' = [windowGradeNames EXCEPT ![TargetWindow] = ComponentGradeNames]
    /\ blurrableFired' = <<>>
    /\ UNCHANGED <<focusedWindow, linkedWindowsGrades, windowState>>
    /\ UNCHANGED <<advisoryVars, menuVars>>

\* the target window loses the focus, to another window of the application
\* or to none of them: its blur event fires
TargetLosesFocus ==
    \E focused \in {NoWindow} \cup OtherWindows :
        /\ focusedWindow = TargetWindow
        /\ focusedWindow' = focused
        /\ blurrableFired' = IF blurListenerAttached THEN onFocusLost(focused) ELSE <<>>
        /\ windowState' = stateAfter(blurrableFired', windowState)
        /\ UNCHANGED <<windowGradeNames, linkedWindowsGrades, blurListenerAttached>>
        /\ UNCHANGED <<advisoryVars, menuVars>>

\* the target window gets the focus
TargetGetsFocus ==
    /\ focusedWindow # TargetWindow
    /\ focusedWindow' = TargetWindow
    /\ blurrableFired' = <<>>
    /\ windowState' = stateOnFocus
    /\ UNCHANGED <<windowGradeNames, linkedWindowsGrades, blurListenerAttached>>
    /\ UNCHANGED <<advisoryVars, menuVars>>

\* the focus moves between the other windows, or away from all of them
FocusMovesElsewhere ==
    \E focused \in {NoWindow} \cup OtherWindows :
        /\ focusedWindow # TargetWindow
        /\ focused # focusedWindow
        /\ focusedWindow' = focused
        /\ blurrableFired' = <<>>
        /\ UNCHANGED <<windowGradeNames, linkedWindowsGrades, blurListenerAttached,
                       windowState>>
        /\ UNCHANGED <<advisoryVars, menuVars>>

----------------------------------------------------------------------------
(* gpii.qssWidget.menu *)

MaxCalls == 3

closeDelay == 1200

\* {menu}.model.setting.schema.enum, the items of the menu
MenuItems == {"small", "medium", "large"}

NoCall == "#none"

SettingAltered(value) == [event |-> "onQssWidgetSettingAltered", value |-> value]
WidgetClosed == [event |-> "onQssWidgetClosed", value |-> NoCall]

\* the condition of updateValue without its test of model.disabled
updateValueGuardIgnoresDisabled(value) == menuValue # value

\* the condition of updateValue
updateValueGuard(value) == ~menuDisabled /\ menuValue # value

\* gpii.qssWidget.menu.close: one more callback scheduled after closeDelay
close(timers) == Append(timers, closeDelay)

\* the menu after construction: enabled, its value the setting's value, the
\* disabled class removed by onCreate.enable
MenuInit ==
    /\ menuValue \in MenuItems
    /\ menuDisabled = FALSE
    /\ menuDisabledClass = FALSE
    /\ closeTimers = <<>>
    /\ menuFired = <<>>
    /\ updateValueCalls = 0
    /\ lastCallValue = NoCall

\* gpii.qssWidget.menu.updateValue: an item is activated. The change of value
\* has the source settingAlter, so the menu's listener of setting fires
\* onQssWidgetSettingAltered; the change of disabled has no source.
updateValue ==
    \E value \in MenuItems :
        /\ updateValueCalls < MaxCalls
        /\ updateValueCalls' = updateValueCalls + 1
        /\ lastCallValue' = value
        /\ IF updateValueGuard(value)
           THEN /\ menuValue' = value
                /\ menuFired' = Append(menuFired, SettingAltered(value))
                /\ menuDisabled' = TRUE
                /\ menuDisabledClass' = TRUE
                /\ closeTimers' = close(closeTimers)
           ELSE UNCHANGED <<menuValue, menuFired, menuDisabled, menuDisabledClass,
                            closeTimers>>
        /\ UNCHANGED <<advisoryVars, blurVars>>

\* the callback of setTimeout in close runs
CloseTimerFires ==
    /\ Len(closeTimers) > 0
    /\ closeTimers' = Tail(closeTimers)
    /\ menuFired' = Append(menuFired, WidgetClosed)
    /\ UNCHANGED <<menuValue, menuDisabled, menuDisabledClass, updateValueCalls,
                   lastCallValue>>
    /\ UNCHANGED <<advisoryVars, blurVars>>

\* the setting changes outside the widget (through the PSP): the value
\* follows {menu}.model.setting.value, with no source settingAlter
SettingChangedElsewhere ==
    \E value \in MenuItems :
        /\ value # menuValue
        /\ menuValue' = value
        /\ UNCHANGED <<menuDisabled, menuDisabledClass, closeTimers, menuFired,
                       updateValueCalls, lastCallValue>>
        /\ UNCHANGED <<advisoryVars, blurVars>>

----------------------------------------------------------------------------
(* The specifications *)

\* the menu widget as constructed, never used
MenuIdle ==
    /\ MenuInit
    /\ menuValue = "small"

\* the restart warning while the blurrable stays as constructed
BlurIdle ==
    /\ focusedWindow = NoWindow
    /\ windowGradeNames = [w \in {TargetWindow} \cup OtherWindows |-> Undefined]
    /\ linkedWindowsGrades = <<>>
    /\ blurListenerAttached = FALSE
    /\ blurrableFired = <<>>
    /\ windowState = stateOnFocus

\* the blurrable while the restart warning stays as constructed
AdvisoryIdle ==
    /\ AdvisoryInit
    /\ settings = <<>>
    /\ messages = DefaultMessages

Init == AdvisoryInit /\ BlurIdle /\ MenuIdle

Next ==
    \/ AddPendingChange
    \/ RemovePendingChange
    \/ UpdateSettings
    \/ UpdateMessages
    \/ ClickUndo
    \/ ClickRestartNow

Spec == Init /\ [][Next]_vars

InitBlur == BlurInit /\ AdvisoryIdle /\ MenuIdle

NextBlur ==
    \/ initBlurrable
    \/ TargetLosesFocus
    \/ TargetGetsFocus
    \/ FocusMovesElsewhere

SpecBlur == InitBlur /\ [][NextBlur]_vars

InitMenu == MenuInit /\ AdvisoryIdle /\ BlurIdle

NextMenu ==
    \/ updateValue
    \/ CloseTimerFires
    \/ SettingChangedElsewhere

SpecMenu == InitMenu /\ [][NextMenu]_vars

----------------------------------------------------------------------------
(* What the claims speak of, stated without the operators above *)

Absent == {Undefined, Null}

\* the paths of all nodes of a settings tree, at any depth
RECURSIVE TreePaths(_)
TreePaths(tree) ==
    UNION { {tree[i].path} \cup TreePaths(tree[i].settings) : i \in 1..Len(tree) }

\* the pending changes of the panel that are in the scope of the group
Scoped == SelectSeq(panelPendingChanges,
                    LAMBDA change : change.path \in TreePaths(settings))

ScopedNeedsOSRestart == \E i \in 1..Len(Scoped) : Scoped[i].liveness = "OSRestart"

\* a change's display name: solutionName if present, otherwise schema.title
DisplayName(change) ==
    IF change.solutionName \notin Absent THEN change.solutionName
    ELSE change.schema.title

\* the position of the first scoped change with this display name, 0 if none
FirstSeen(name) ==
    IF \E i \in 1..Len(Scoped) : DisplayName(Scoped[i]) = name
    THEN CHOOSE i \in 1..Len(Scoped) :
            /\ DisplayName(Scoped[i]) = name
            /\ \A j \in 1..(i - 1) : DisplayName(Scoped[j]) # name
    ELSE 0

Range(seq) == { seq[i] : i \in 1..Len(seq) }

\* C1: when some scoped pending change has liveness OSRestart, solutionNames
\* is exactly the one-element sequence of messages.osName, whatever the other
\* pending changes are.
C1_OSRestartPrecedence ==
    ScopedNeedsOSRestart => solutionNames = <<messages.osName>>

\* an OSRestart change that is not the first of three scoped changes, among
\* changes that have other display names
C1_Witness ==
    /\ Len(Scoped) >= 3
    /\ Scoped[1].liveness # "OSRestart"
    /\ ScopedNeedsOSRestart
    /\ \E i \in 1..Len(Scoped) :
          DisplayName(Scoped[i]) \notin Absent \cup {messages.osName}
    /\ solutionNames = <<messages.osName>>

\* C2: with no OSRestart change, solutionNames holds no value twice and its
\* elements are in the order in which each display name first occurs in the
\* pending changes.
C2_NoDuplicatesFirstSeenOrder ==
    ~ScopedNeedsOSRestart =>
        \A i, j \in 1..Len(solutionNames) :
            i < j => /\ solutionNames[i] # solutionNames[j]
                     /\ FirstSeen(solutionNames[i]) > 0
                     /\ FirstSeen(solutionNames[i]) < FirstSeen(solutionNames[j])

\* three scoped changes, the third repeating the display name of the first
C2_Witness ==
    /\ ~ScopedNeedsOSRestart
    /\ Len(Scoped) = 3
    /\ DisplayName(Scoped[1]) = DisplayName(Scoped[3])
    /\ DisplayName(Scoped[2]) # DisplayName(Scoped[1])
    /\ Len(solutionNames) = 2
    /\ solutionNames[1] = DisplayName(Scoped[1])

\* C3: the component's pendingChanges is exactly the subsequence of the panel's
\* pending changes whose path is the path of some node of the settings tree,
\* at any depth, in the original order.
C3_ScopeFilter == pendingChanges = Scoped

\* a change is kept because of a node that follows a sibling whose subsettings
\* do not match it, and another change is excluded
C3_Witness ==
    /\ Len(pendingChanges) < Len(panelPendingChanges)
    /\ \E i \in 1..Len(pendingChanges) : \E k, m \in 1..Len(settings) :
          /\ k < m
          /\ settings[k].hasSettings
          /\ Len(settings[k].settings) > 0
          /\ pendingChanges[i].path \notin TreePaths(<<settings[k]>>)
          /\ pendingChanges[i].path = settings[m].path

TemplateWithoutSolutions ==
    SelectSeq(messages.restartText, LAMBDA token : token # "%solutions")

C6_VisibleIffSolutionNames == visible <=> Len(solutionNames) > 0

\* the warning is hidden although the group has pending changes, none of which
\* has a name
C6_Witness ==
    /\ ~visible
    /\ Len(pendingChanges) >= 1
    /\ solutionNames = <<>>

\* C7 as stated: the button label is messages.restartNow when some scoped
\* pending change has liveness OSRestart, and messages.applyNow otherwise.
C7_AsStated ==
    restartBtnLabel = IF ScopedNeedsOSRestart THEN messages.restartNow
                      ELSE messages.applyNow

\* C8: a click on either button fires its event with exactly the pending
\* changes now scoped to the group, and changes nothing else.
C8_ClicksForwardScoped ==
    [][lastFired'.event # "none" =>
          /\ lastFired'.event \in {"onUndoChanges", "onRestartNow"}
          /\ lastFired'.args = Scoped
          /\ UNCHANGED <<panelPendingChanges, settings, messages, pendingChanges,
                         solutionNames, restartText, restartBtnLabel, visible>>]_vars

\* an undo click that carries some, but not all, of the panel's changes
C8_Witness ==
    /\ lastFired.event = "onUndoChanges"
    /\ Len(lastFired.args) >= 1
    /\ Len(lastFired.args) < Len(panelPendingChanges)

FocusLossNotified ==
    /\ blurListenerAttached
    /\ focusedWindow = TargetWindow
    /\ focusedWindow' # TargetWindow

\* the tags of a window: none for no window and for a window without gradeNames
TagsOf(window) ==
    IF window = NoWindow \/ windowGradeNames[window] = Undefined THEN {}
    ELSE Range(windowGradeNames[window])

LinkedTags == Range(linkedWindowsGrades)

\* C4: on every focus-loss notification onBlur is fired if and only if no
\* window is focused, or the focused window has no tags, or none of its tags
\* is a linked tag.
C4_BlurIffDisjoint ==
    [][FocusLossNotified =>
          (Contains(blurrableFired', "onBlur") <=>
              \/ focusedWindow' = NoWindow
              \/ TagsOf(focusedWindow') = {}
              \/ TagsOf(focusedWindow') \cap LinkedTags = {})]_vars

\* onBlur was fired although a tagged window has the focus and tags are linked
C4_Witness ==
    /\ Contains(blurrableFired, "onBlur")
    /\ focusedWindow \in OtherWindows
    /\ TagsOf(focusedWindow) # {}
    /\ Cardinality(LinkedTags) >= 2

\* C10: a focus loss to a window with a linked tag fires no onBlur and leaves
\* the logical state of the target window as it was, and the state becomes
\* Blurred only in a focus loss whose blur is allowed.
C10_SuppressedBlurChangesNothing ==
    /\ [][(FocusLossNotified /\ TagsOf(focusedWindow') \cap LinkedTags # {}) =>
             /\ ~Contains(blurrableFired', "onBlur")
             /\ windowState' = windowState]_vars
    /\ [][(windowState # "Blurred" /\ windowState' = "Blurred") =>
             /\ FocusLossNotified
             /\ Contains(blurrableFired', "onBlur")
             /\ TagsOf(focusedWindow') \cap LinkedTags = {}]_vars

\* a focus loss was notified and suppressed: the focused window has a linked
\* tag and the target is still Focused
C10_Witness ==
    /\ blurrableFired = <<"onFocusLost">>
    /\ focusedWindow \in OtherWindows
    /\ TagsOf(focusedWindow) \cap LinkedTags # {}
    /\ windowState = "Focused"

\* how many times an event was fired to the channelNotifier
FiredCount(event) ==
    Cardinality({ i \in 1..Len(menuFired) : menuFired[i].event = event })

\* this step is a call of updateValue
UpdateValueCalled == updateValueCalls' = updateValueCalls + 1

\* C11: a call of updateValue with the current value, or after a value was
\* committed, changes nothing; a call with another value on the enabled menu
\* sets the value with onQssWidgetSettingAltered fired for it, disables the
\* menu and schedules one close; so the setting is altered at most once, and
\* onQssWidgetClosed is fired at most once and only after the alteration.
C11_MenuCommitsAtMostOnce ==
    /\ [](/\ FiredCount("onQssWidgetSettingAltered") <= 1
          /\ FiredCount("onQssWidgetClosed") + Len(closeTimers)
                = FiredCount("onQssWidgetSettingAltered")
          /\ menuDisabled <=> FiredCount("onQssWidgetSettingAltered") = 1
          /\ \A i \in 1..Len(menuFired) :
                menuFired[i].event = "onQssWidgetClosed" =>
                    \E j \in 1..(i - 1) :
                        menuFired[j].event = "onQssWidgetSettingAltered")
    /\ [][UpdateValueCalled =>
             IF ~menuDisabled /\ lastCallValue' # menuValue
             THEN /\ menuValue' = lastCallValue'
                  /\ menuFired' = Append(menuFired, SettingAltered(lastCallValue'))
                  /\ menuDisabled'
                  /\ Len(closeTimers') = Len(closeTimers) + 1
             ELSE UNCHANGED <<menuValue, menuDisabled, menuDisabledClass,
                              closeTimers, menuFired>>]_vars

\* a value was committed and the widget closed, and a later call with
\* another value was ignored
C11_Witness ==
    /\ updateValueCalls >= 3
    /\ menuFired = <<SettingAltered(menuValue), WidgetClosed>>
    /\ menuDisabled
    /\ lastCallValue # menuValue

====
